---- MODULE Spec2Model ----
(***************************************************************************)
(* Model of src/index.js: a GitHub action that waits for a Netlify         *)
(* deployment of a commit to be created (phase 1), to become ready         *)
(* (phase 2), and for its public URL to answer a HEAD request (phase 3).   *)
(*                                                                         *)
(* The program is one async function, run(); every `await` is a point      *)
(* where it is suspended.  Each action below is the code that runs between *)
(* two suspension points.  The clock (Date.now()) is in milliseconds.      *)
(***************************************************************************)
EXTENDS Integers, Sequences, FiniteSets, TLC

VARIABLES
    env,              \* process.env, github.context and the action's inputs
    pc,               \* where run() is suspended
    now,              \* Date.now(), in ms
    startTime,        \* startTime of the waiter in progress (lines 16, 55)
    timeoutSeconds,   \* timeoutSeconds of the waiter in progress (lines 15, 54, 90)
    commitDeployment, \* run: commitDeployment (line 139), <<>> before phase 1 ends
    latestDeployState,\* waitForReadiness: latestDeployState (line 57)
    i,                \* waitForUrl: loop counter (line 92)
    http,             \* every HTTP request issued so far, in order
    inflight,         \* number of HTTP requests issued and not yet settled
    settled,          \* what the request awaited last settled with
    sleeps,           \* every timer delay completed so far (ms), in order
    outputs,          \* core.setOutput calls, in order
    failed,           \* core.setFailed calls (the failure channel), in order
    thrown,           \* the error caught at line 161, <<>> if none
    console           \* the console.log lines written by the most recent step

vars == << env, pc, now, startTime, timeoutSeconds,
           commitDeployment, latestDeployState, i, http, inflight, settled,
           sleeps, outputs, failed, thrown, console >>

----------------------------------------------------------------------------
(* Bounds of the model *)

\* Polls (list GETs, status GETs) a waiter may issue in the model.
MaxPolls == 3
\* Longest deployments list the provider returns.
MaxListLen == 2

----------------------------------------------------------------------------
(* JavaScript values *)

UNDEFINED == "<undefined>"

\* JS truthiness of a string-or-undefined value: !v is true for undefined and ''.
Truthy(v) == v # UNDEFINED /\ v # ""

\* A JS number is <<n>>; NaN is the empty tuple.
NaN == << >>
Num(n) == << n >>
IsNaN(x) == x = NaN

\* a > b on JS numbers: false whenever an operand is NaN.
Gt(a, b) == ~IsNaN(a) /\ ~IsNaN(b) /\ a[1] > b[1]

\* Substring test, for statements about what a message includes.
Includes(s, sub) ==
    \E k \in 1..(Len(s) - Len(sub) + 1) : SubSeq(s, k, k + Len(sub) - 1) = sub

----------------------------------------------------------------------------
(* Numbers.  A JS number is held in tenths, <<t>> standing for t/10, which  *)
(* is exact for every number the program computes from the inputs below:   *)
(* ellapsedSeconds rounds to one decimal.                                   *)

Secs(n) == Num(10 * n)

DigitVal(c) ==
    CASE c = "0" -> 0 [] c = "1" -> 1 [] c = "2" -> 2 [] c = "3" -> 3
      [] c = "4" -> 4 [] c = "5" -> 5 [] c = "6" -> 6 [] c = "7" -> 7
      [] c = "8" -> 8 [] c = "9" -> 9 [] OTHER -> -1

\* The value of a string of decimal digits ("" is 0), -1 if it has another character.
RECURSIVE NatOf(_)
NatOf(s) ==
    IF Len(s) = 0 THEN 0
    ELSE LET d == DigitVal(SubSeq(s, Len(s), Len(s)))
             r == NatOf(SubSeq(s, 1, Len(s) - 1))
         IN  IF d < 0 \/ r < 0 THEN -1 ELSE 10 * r + d

\* Number(s) for strings of the form [-]digits[.digit]; anything else, NaN.
\* Number('') is 0.
Number(s) ==
    LET neg   == Len(s) > 0 /\ SubSeq(s, 1, 1) = "-"
        body  == IF neg THEN SubSeq(s, 2, Len(s)) ELSE s
        n     == Len(body)
        hasPt == n >= 2 /\ SubSeq(body, n - 1, n - 1) = "."
        whole == NatOf(IF hasPt THEN SubSeq(body, 1, n - 2) ELSE body)
        frac  == IF hasPt THEN DigitVal(SubSeq(body, n, n)) ELSE 0
        t     == 10 * whole + frac
    IN  IF s = "" THEN Num(0)
        ELSE IF n = 0 \/ whole < 0 \/ frac < 0 THEN NaN
        ELSE Num(IF neg THEN 0 - t ELSE t)

\* `${x}` for a JS number: 300, 5.3, -3, NaN.
Fmt(x) ==
    IF IsNaN(x) THEN "NaN"
    ELSE LET a == IF x[1] < 0 THEN 0 - x[1] ELSE x[1]
         IN  (IF x[1] < 0 THEN "-" ELSE "")
             \o ToString(a \div 10)
             \o (IF a % 10 = 0 THEN "" ELSE "." \o ToString(a % 10))

\* x || d on JS numbers: d when x is 0 or NaN.
OrElse(x, d) == IF IsNaN(x) \/ x = Num(0) THEN d ELSE x

----------------------------------------------------------------------------
(* Program constants *)

\* READY_STATES, had it left out "current".
READY_STATES_OnlyReady == {"ready"}
READY_STATES == {"ready", "current"}
MAX_CREATE_TIMEOUT == 300
MAX_WAIT_TIMEOUT == 900
DEFAULT_READY_TIMEOUT == 60
retrySecondsCreation == 5
retrySecondsReadiness == 10
urlRetryMillis == 3000
urlSecondsPerIteration == 3

----------------------------------------------------------------------------
(* Utils (lines 172-179) *)

\* ellapsedSeconds(timestamp) evaluated when Date.now() is dateNow; timestamp
\* is <<t>>, or << >> when the argument is left out: Date.now() - undefined
\* is NaN, and so is the result.  Math.round rounds half up.
ellapsedSeconds(timestamp, dateNow) ==
    IF timestamp = << >> THEN NaN
    ELSE Num(((dateNow - timestamp[1]) + 50) \div 100)

\* The clock when the timer of waitForSeconds(seconds) fires.
waitForSeconds(seconds) == now + seconds * 1000

----------------------------------------------------------------------------
(* The environment: configuration and the provider's answers *)

\* process.env.NETLIFY_TOKEN, github.context and the action's inputs.
\* core.getInput returns '' for an input that is not given.
GitContexts ==
    { [eventName |-> "push", sha |-> "abc123", prHeadSha |-> UNDEFINED],
      [eventName |-> "pull_request", sha |-> "fff000", prHeadSha |-> "abc123"],
      [eventName |-> "push", sha |-> UNDEFINED, prHeadSha |-> UNDEFINED] }

Envs ==
    [ NETLIFY_TOKEN : {UNDEFINED, "tok"},
      github        : GitContexts,
      site_id       : {"", "site1"},
      context       : {"", "production"},
      max_timeout   : {"", "9", "7", "7.5", "-3"} ]

\* Deployment records the provider may list.
Deploys ==
    { [id |-> "xyz", name |-> "mysite", commit_ref |-> "abc123", context |-> "production"],
      [id |-> "d2",  name |-> "mysite", commit_ref |-> "abc123", context |-> "deploy-preview"],
      [id |-> "d3",  name |-> "mysite", commit_ref |-> "fff000", context |-> "production"] }

DeployLists == UNION { [1..n -> Deploys] : n \in 0..MaxListLen }

DeployStates == {"building", "error", "ready", "current"}

\* How long a request may take to settle (ms).  Requests carry no timeout of
\* their own, so one may stall for longer than a waiter's whole budget.
Latency == {250, 301000}
\* The clock is not read in phase 3: one latency for the HEAD requests.
HeadLatency == {250}

\* A settled axios request: rejected with an error, or resolved with data.
Rejected(code, message) ==
    [rejected |-> TRUE, error |-> [typeof |-> "object", code |-> code, message |-> message],
     data |-> [tag |-> "none"]]
Resolved(data) ==
    [rejected |-> FALSE, error |-> [typeof |-> "none"], data |-> data]

JsNull == [tag |-> "null"]

ListResponses ==
    { Rejected("ERR_BAD_REQUEST", "Request failed with status code 404") }
    \cup { Resolved(JsNull) }
    \cup { Resolved([tag |-> "array", items |-> l]) : l \in DeployLists }

StatusResponses ==
    { Rejected("ERR_BAD_RESPONSE", "Request failed with status code 500") }
    \cup { Resolved(JsNull) }
    \cup { Resolved([tag |-> "object", state |-> st]) : st \in DeployStates }

HeadResponses ==
    { Rejected("ENOTFOUND", "getaddrinfo ENOTFOUND"), Resolved([tag |-> "object"]) }

----------------------------------------------------------------------------
(* run: configuration (lines 109-118) *)

\* `${v}` for a string that may be undefined.
Str(v) == IF v = UNDEFINED THEN "undefined" ELSE v

netlifyToken == env.NETLIFY_TOKEN
commitSha ==
    IF env.github.eventName = "pull_request"
    THEN env.github.prHeadSha
    ELSE env.github.sha
\* MAX_READY_TIMEOUT, had line 116 left out the default.
MAX_READY_TIMEOUT_NoDefault == Number(env.max_timeout)
MAX_READY_TIMEOUT == OrElse(Number(env.max_timeout), Secs(DEFAULT_READY_TIMEOUT))
siteId == env.site_id
context == env.context

\* The setFailed calls of lines 120-130, in order.  None of them returns
\* from run.  (The third message is written without its backquotes.)
MissingConfiguration ==
    (IF ~Truthy(netlifyToken)
     THEN << "Please set NETLIFY_TOKEN env variable to your Netlify Personal Access Token secret" >>
     ELSE << >>)
    \o (IF ~Truthy(commitSha) THEN << "Could not determine GitHub commit" >> ELSE << >>)
    \o (IF ~Truthy(siteId) THEN << "Required field site_id was not provided" >> ELSE << >>)

\* Lines 132-138.
WaitingMessage ==
    "Waiting for Netlify to create a deployment for git SHA " \o Str(commitSha)
    \o (IF Truthy(context) THEN " and context " \o context ELSE "")

\* PreviewUrl, had line 146 ended the URL with a slash.
PreviewUrl_TrailingSlash(d) == "https://" \o d.id \o "--" \o d.name \o ".netlify.app/"

\* The endpoints (lines 140, 155) and the preview URL (line 146).
DeploysUrl == "https://api.netlify.com/api/v1/sites/" \o siteId \o "/deploys"
DeployUrl(d) == "https://api.netlify.com/api/v1/sites/" \o siteId \o "/deploys/" \o d.id
PreviewUrl(d) == "https://" \o d.id \o "--" \o d.name \o ".netlify.app"

\* getNetlifyUrl (lines 7-13): the request axios.get sends.
getNetlifyUrl(url) ==
    [method |-> "GET", url |-> url, authorization |-> "Bearer " \o Str(netlifyToken)]
\* axios.head(url) (line 94).
HeadRequest(url) == [method |-> "HEAD", url |-> url, authorization |-> ""]

\* new Error(message)
Error(message) == [typeof |-> "object", code |-> "", message |-> message]

\* What an async function call ends in.
Throws(e)  == [throws |-> TRUE, error |-> e, value |-> << >>]
Returns(v) == [throws |-> FALSE, error |-> [typeof |-> "none"], value |-> << v >>]

----------------------------------------------------------------------------
(* waitForDeployCreation (lines 15-52) *)

\* Matches, had line 49 left out the context test.
Matches_IgnoringContext(d, sha, ctx) == d.commit_ref = sha

\* The predicate of line 49.
Matches(d, sha, ctx) == d.commit_ref = sha /\ (~Truthy(ctx) \/ d.context = ctx)

\* Array.prototype.find with that predicate: << d >> for the first match in
\* order, << >> for undefined.
RECURSIVE find(_, _, _)
find(items, sha, ctx) ==
    IF items = << >> THEN << >>
    ELSE IF Matches(Head(items), sha, ctx) THEN << Head(items) >>
    ELSE find(Tail(items), sha, ctx)

\* getCurrentDeploymentIfCreated, had it taken an absent list for an empty one.
getCurrentDeploymentIfCreated_NullAsEmpty(resp, sha, ctx) ==
    IF resp.rejected THEN Throws(resp.error)
    ELSE IF resp.data.tag = "null" THEN Returns(<< >>)
    ELSE Returns(find(resp.data.items, sha, ctx))

\* getCurrentDeploymentIfCreated (lines 41-51), given the settled request.
getCurrentDeploymentIfCreated(resp, sha, ctx) ==
    IF resp.rejected THEN Throws(resp.error)
    ELSE IF resp.data.tag = "null" THEN Throws(Error("Failed to get deployments for site"))
    ELSE Returns(find(resp.data.items, sha, ctx))

\* Line 29: ellapsedSeconds is called without its argument.
CreationTimedOut(timeout, dateNow) ==
    Gt(ellapsedSeconds(<< >>, dateNow), timeout)

CreationTimeoutMessage(timeout) ==
    "Timeout reached: Deployment was not ready within " \o Fmt(timeout) \o " seconds."

----------------------------------------------------------------------------
(* waitForReadiness (lines 54-88) *)

\* isCurrentDeploymentReady (lines 83-87), given the settled request.
\* Reading .state of a null record is a TypeError.
isCurrentDeploymentReady(resp) ==
    IF resp.rejected THEN Throws(resp.error)
    ELSE IF resp.data.tag = "null"
    THEN Throws(Error("Cannot read properties of null (reading 'state')"))
    ELSE Returns(resp.data.state \in READY_STATES)

\* LatestDeployStateAfter, had line 85 been left out.
LatestDeployStateAfter_Stale(resp, latest) == latest

\* latestDeployState after isCurrentDeploymentReady (line 85).
LatestDeployStateAfter(resp, latest) ==
    IF ~resp.rejected /\ resp.data.tag = "object" THEN resp.data.state ELSE latest

\* Line 69: ellapsedSeconds is called without its argument.
ReadinessTimedOut(timeout, dateNow) ==
    Gt(ellapsedSeconds(<< >>, dateNow), timeout)

ReadinessTimeoutMessage(timeout, latest) ==
    "Timeout reached: Deployment was not ready within " \o Fmt(timeout)
    \o " seconds. Last known deployment state: " \o latest \o "."

----------------------------------------------------------------------------
(* waitForUrl (lines 90-105) *)

\* LoopContinues, had the iteration count been rounded down.
LoopContinues_Floored(k, timeout) ==
    k < timeout[1] \div (urlSecondsPerIteration * 10)

\* i < iterations, with iterations = timeoutSeconds / 3 (lines 91-92); the
\* quotient is not rounded, so the test is 3 * i < timeoutSeconds.
\* timeoutSeconds is in tenths, hence the 10.
LoopContinues(k, timeout) ==
    urlSecondsPerIteration * 10 * k < timeout[1]

\* AfterHead, had line 95 not returned.
AfterHead_NoReturn(resp) == "url_sleep"

\* AfterHead, had the catch of line 96 given up on the first rejection.
AfterHead_RejectionEnds(resp) == "done"

\* The try of lines 93-102: a resolved request returns from waitForUrl (and
\* run ends), a rejected one goes on to the timer of line 101.
AfterHead(resp) == IF resp.rejected THEN "url_sleep" ELSE "done"

UrlFailureMessage(url) == "Timeout reached: Unable to connect to " \o url

----------------------------------------------------------------------------
(* The state machine *)

Init ==
    /\ env \in Envs
    /\ pc = "start"
    /\ now = 0
    /\ startTime = 0
    /\ timeoutSeconds = << >>
    /\ commitDeployment = << >>
    /\ latestDeployState = "(unknown)"
    /\ i = 0
    /\ http = << >>
    /\ inflight = 0
    /\ settled = [kind |-> "none", resp |-> Resolved([tag |-> "none"])]
    /\ sleeps = << >>
    /\ outputs = << >>
    /\ failed = << >>
    /\ thrown = << >>
    /\ console = << >>

\* Requests issued so far that are GETs of the deployments list, GETs of one
\* deployment, HEADs.
IsListGet(r)   == r.method = "GET" /\ r.url = DeploysUrl
IsStatusGet(r) == r.method = "GET" /\ r.url # DeploysUrl
IsHead(r)      == r.method = "HEAD"
nListGets   == Cardinality({k \in 1..Len(http) : IsListGet(http[k])})
nStatusGets == Cardinality({k \in 1..Len(http) : IsStatusGet(http[k])})
nHeads      == Cardinality({k \in 1..Len(http) : IsHead(http[k])})

\* Catch, had each waiter's failure been caught on its own and run gone on
\* to the next phase.
Catch_GoesOn(error) ==
    /\ failed' = Append(failed, IF error.typeof = "string" THEN error.value ELSE error.message)
    /\ thrown' = << error >>
    /\ pc' = IF commitDeployment = << >> THEN "ready_get" ELSE "url_loop"

\* Catch, had it swallowed the error without reporting it.
Catch_Silent(error) ==
    /\ failed' = failed
    /\ thrown' = << error >>
    /\ pc' = "done"

\* Catch, had it reported the error and its message separately.
Catch_Twice(error) ==
    /\ failed' = failed \o << "Error", error.message >>
    /\ thrown' = << error >>
    /\ pc' = "done"

\* The catch of run (lines 161-163), reached by a throw in phase 1 or 2.
Catch(error) ==
    /\ failed' = Append(failed, IF error.typeof = "string" THEN error.value ELSE error.message)
    /\ thrown' = << error >>
    /\ pc' = "done"

\* run, lines 108-144, and waitForDeployCreation up to its first request.
RunStart ==
    /\ pc = "start"
    /\ failed' = failed \o MissingConfiguration
    /\ console' = << WaitingMessage >>
    /\ startTime' = now
    /\ timeoutSeconds' = Secs(MAX_CREATE_TIMEOUT)
    /\ pc' = "create_get"
    /\ UNCHANGED << env, settled, now, commitDeployment, latestDeployState, i, http,
                    inflight, sleeps, outputs, thrown >>

\* checkContinually -> getCurrentDeploymentIfCreated -> getNetlifyUrl (lines 22, 43).
CreateGet ==
    /\ pc = "create_get"
    /\ nListGets < MaxPolls
    /\ http' = Append(http, getNetlifyUrl(DeploysUrl))
    /\ inflight' = inflight + 1
    /\ pc' = "create_await"
    /\ console' = << >>
    /\ UNCHANGED << env, timeoutSeconds, settled, now, startTime, commitDeployment, latestDeployState, i,
                    sleeps, outputs, failed, thrown >>

\* The list request settles after `lat` ms: lines 43-50 and 23-37, and, when a
\* deployment is returned, run's lines 146-153 and waitForReadiness up to its
\* first request (lines 55-59).
CreateSettle(resp, lat) ==
    /\ pc = "create_await"
    /\ now' = now + lat
    /\ inflight' = inflight - 1
    /\ settled' = [kind |-> "list", resp |-> resp]
    /\ LET got == getCurrentDeploymentIfCreated(resp, commitSha, context)
       IN  IF got.throws
           THEN /\ Catch(got.error)
                /\ console' = << >>
                /\ UNCHANGED << startTime, timeoutSeconds, commitDeployment,
                                latestDeployState, outputs >>
           ELSE LET currentDeployment == got.value[1]
                IN  IF currentDeployment # << >>
                    THEN LET d == currentDeployment[1]
                         IN  /\ commitDeployment' = << d >>
                             /\ outputs' = outputs \o << << "deploy_id", d.id >>,
                                                         << "url", PreviewUrl(d) >> >>
                             /\ console' =
                                  << "Deployment created ("
                                       \o Fmt(ellapsedSeconds(<< startTime >>, now')) \o "s)",
                                     "Waiting for Netlify deployment " \o d.id
                                       \o " in site " \o d.name \o " to be ready" >>
                             /\ startTime' = now'
                             /\ timeoutSeconds' = Secs(MAX_WAIT_TIMEOUT)
                             /\ latestDeployState' = "(unknown)"
                             /\ pc' = "ready_get"
                             /\ UNCHANGED << failed, thrown >>
                    ELSE IF CreationTimedOut(timeoutSeconds, now')
                    THEN /\ Catch(Error(CreationTimeoutMessage(timeoutSeconds)))
                         /\ console' = << >>
                         /\ UNCHANGED << startTime, timeoutSeconds, commitDeployment,
                                         latestDeployState, outputs >>
                    ELSE /\ console' = << "Deploy not yet created. Trying again in "
                                            \o ToString(retrySecondsCreation) \o " seconds..." >>
                         /\ pc' = "create_sleep"
                         /\ UNCHANGED << startTime, timeoutSeconds, commitDeployment,
                                         latestDeployState, outputs, failed, thrown >>
    /\ UNCHANGED << env, i, http, sleeps >>

\* CreateWake, had line 37 not awaited the timer.
CreateWake_NotAwaited ==
    /\ pc = "create_sleep"
    /\ pc' = "create_get"
    /\ console' = << >>
    /\ UNCHANGED << env, timeoutSeconds, settled, now, sleeps, startTime, commitDeployment,
                    latestDeployState, i, http, inflight, outputs, failed, thrown >>

\* The timer of line 37 fires; checkContinually is called again (line 38).
CreateWake ==
    /\ pc = "create_sleep"
    /\ now' = waitForSeconds(retrySecondsCreation)
    /\ sleeps' = Append(sleeps, retrySecondsCreation * 1000)
    /\ pc' = "create_get"
    /\ console' = << >>
    /\ UNCHANGED << env, timeoutSeconds, settled, startTime, commitDeployment, latestDeployState, i, http,
                    inflight, outputs, failed, thrown >>

\* ReadyGet, had run not awaited waitForReadiness (line 154): waitForUrl
\* sends its first HEAD while the status request is in flight.
ReadyGet_NotAwaited ==
    /\ pc = "ready_get"
    /\ nStatusGets < MaxPolls
    /\ http' = http \o << getNetlifyUrl(DeployUrl(commitDeployment[1])),
                          HeadRequest(PreviewUrl(commitDeployment[1])) >>
    /\ inflight' = inflight + 2
    /\ pc' = "ready_await"
    /\ console' = << >>
    /\ UNCHANGED << env, timeoutSeconds, settled, now, startTime, commitDeployment,
                    latestDeployState, i, sleeps, outputs, failed, thrown >>

\* checkContinually -> isCurrentDeploymentReady -> getNetlifyUrl (lines 62, 84).
ReadyGet ==
    /\ pc = "ready_get"
    /\ nStatusGets < MaxPolls
    /\ http' = Append(http, getNetlifyUrl(DeployUrl(commitDeployment[1])))
    /\ inflight' = inflight + 1
    /\ pc' = "ready_await"
    /\ console' = << >>
    /\ UNCHANGED << env, timeoutSeconds, settled, now, startTime, commitDeployment, latestDeployState, i,
                    sleeps, outputs, failed, thrown >>

\* The status request settles after `lat` ms: lines 84-86 and 63-79, and,
\* when the deployment is ready, run's line 159 and the start of waitForUrl.
ReadySettle(resp, lat) ==
    /\ pc = "ready_await"
    /\ now' = now + lat
    /\ inflight' = inflight - 1
    /\ settled' = [kind |-> "status", resp |-> resp]
    /\ latestDeployState' = LatestDeployStateAfter(resp, latestDeployState)
    /\ LET got == isCurrentDeploymentReady(resp)
       IN  IF got.throws
           THEN /\ Catch(got.error)
                /\ console' = << >>
                /\ UNCHANGED << i, timeoutSeconds >>
           ELSE IF got.value[1]
           THEN /\ console' =
                     << "Deployment ready ("
                          \o Fmt(ellapsedSeconds(<< startTime >>, now')) \o "s)",
                        "Waiting for a 200 from: " \o PreviewUrl(commitDeployment[1]) >>
                /\ i' = 0
                /\ timeoutSeconds' = MAX_READY_TIMEOUT
                /\ pc' = "url_loop"
                /\ UNCHANGED << failed, thrown >>
           ELSE IF ReadinessTimedOut(timeoutSeconds, now')
           THEN /\ Catch(Error(ReadinessTimeoutMessage(timeoutSeconds, latestDeployState')))
                /\ console' = << >>
                /\ UNCHANGED << i, timeoutSeconds >>
           ELSE /\ console' = << "Deploy not yet ready (state = " \o latestDeployState'
                                   \o "). Trying again in "
                                   \o ToString(retrySecondsReadiness) \o " seconds..." >>
                /\ pc' = "ready_sleep"
                /\ UNCHANGED << i, timeoutSeconds, failed, thrown >>
    /\ UNCHANGED << env, startTime, commitDeployment, http, sleeps, outputs >>

\* The timer of line 79 fires; checkContinually is called again (line 80).
ReadyWake ==
    /\ pc = "ready_sleep"
    /\ now' = waitForSeconds(retrySecondsReadiness)
    /\ sleeps' = Append(sleeps, retrySecondsReadiness * 1000)
    /\ pc' = "ready_get"
    /\ console' = << >>
    /\ UNCHANGED << env, timeoutSeconds, settled, startTime, commitDeployment, latestDeployState, i, http,
                    inflight, outputs, failed, thrown >>

\* The loop test of line 92 holds: axios.head (line 94).
UrlHead ==
    /\ pc = "url_loop"
    /\ LoopContinues(i, timeoutSeconds)
    /\ http' = Append(http, HeadRequest(PreviewUrl(commitDeployment[1])))
    /\ inflight' = inflight + 1
    /\ pc' = "url_await"
    /\ console' = << >>
    /\ UNCHANGED << env, timeoutSeconds, settled, now, startTime, commitDeployment, latestDeployState, i,
                    sleeps, outputs, failed, thrown >>

\* UrlExhausted, had line 104 thrown like the other two waiters.
UrlExhausted_Throws ==
    /\ pc = "url_loop"
    /\ ~LoopContinues(i, timeoutSeconds)
    /\ Catch(Error(UrlFailureMessage(PreviewUrl(commitDeployment[1]))))
    /\ console' = << >>
    /\ UNCHANGED << env, timeoutSeconds, settled, now, startTime, commitDeployment,
                    latestDeployState, i, http, inflight, sleeps, outputs >>

\* The loop test of line 92 fails: line 104, and run returns.
UrlExhausted ==
    /\ pc = "url_loop"
    /\ ~LoopContinues(i, timeoutSeconds)
    /\ failed' = Append(failed, UrlFailureMessage(PreviewUrl(commitDeployment[1])))
    /\ pc' = "done"
    /\ console' = << >>
    /\ UNCHANGED << env, timeoutSeconds, settled, now, startTime, commitDeployment, latestDeployState, i,
                    http, inflight, sleeps, outputs, thrown >>

\* The HEAD request settles after `lat` ms: line 95, or lines 96-101.
UrlSettle(resp, lat) ==
    /\ pc = "url_await"
    /\ now' = now + lat
    /\ inflight' = inflight - 1
    /\ settled' = [kind |-> "head", resp |-> resp]
    /\ pc' = AfterHead(resp)
    /\ console' = IF resp.rejected
                  THEN << "URL " \o PreviewUrl(commitDeployment[1])
                            \o " unavailable, retrying... " \o resp.error.code
                            \o " " \o resp.error.message >>
                  ELSE << >>
    /\ UNCHANGED << env, timeoutSeconds, startTime, commitDeployment, latestDeployState, i, http,
                    sleeps, outputs, failed, thrown >>

\* The timer of line 101 fires; i++ (line 92).
UrlWake ==
    /\ pc = "url_sleep"
    /\ now' = now + urlRetryMillis
    /\ sleeps' = Append(sleeps, urlRetryMillis)
    /\ i' = i + 1
    /\ pc' = "url_loop"
    /\ console' = << >>
    /\ UNCHANGED << env, timeoutSeconds, settled, startTime, commitDeployment, latestDeployState, http,
                    inflight, outputs, failed, thrown >>

Next ==
    \/ RunStart
    \/ CreateGet
    \/ \E resp \in ListResponses, lat \in Latency : CreateSettle(resp, lat)
    \/ CreateWake
    \/ ReadyGet
    \/ \E resp \in StatusResponses, lat \in Latency : ReadySettle(resp, lat)
    \/ ReadyWake
    \/ UrlHead
    \/ UrlExhausted
    \/ \E resp \in HeadResponses, lat \in HeadLatency : UrlSettle(resp, lat)
    \/ UrlWake

Spec == Init /\ [][Next]_vars

----------------------------------------------------------------------------
(* Vocabulary of the properties *)

Range(f) == { f[k] : k \in DOMAIN f }

\* A required configuration value is absent.
ConfigurationMissing == ~Truthy(netlifyToken) \/ ~Truthy(siteId) \/ ~Truthy(commitSha)

\* Real time since the waiter in progress started, in tenths of a second.
Elapsed == ellapsedSeconds(<< startTime >>, now)

\* Completed timer delays of the given length (ms).
nSleeps(ms) == Cardinality({k \in 1..Len(sleeps) : sleeps[k] = ms})

\* The phases as they ended.
CreationReturned  == commitDeployment # << >>
CreationFailed    == thrown # << >> /\ commitDeployment = << >>
ReadinessReturned == pc \in {"url_loop", "url_await", "url_sleep"}
                     \/ (pc = "done" /\ thrown = << >>)
ReadinessFailed   == thrown # << >> /\ commitDeployment # << >>
UrlReturned       == pc = "done" /\ thrown = << >>
                     /\ settled.kind = "head" /\ ~settled.resp.rejected
UrlUnavailable    == pc = "done" /\ thrown = << >>
                     /\ ~(settled.kind = "head" /\ ~settled.resp.rejected)

----------------------------------------------------------------------------
(* C1 *)

\* C1: whenever the access token, the site identifier or the commit
\* reference is absent, the run reports the missing value on the failure
\* channel and never issues an HTTP request.
C1_NoRequestWhenConfigurationMissing ==
    (ConfigurationMissing /\ pc # "start")
        => (failed # << >> /\ http = << >>)

----------------------------------------------------------------------------
(* C2 *)

\* C2: the creation waiter fails with the timeout error (whose message
\* includes the budget) on the first poll whose failed match happens later
\* than the budget after the waiter's start: it never goes on to retry after
\* a failed match past the budget, and a run that it ended by the timeout
\* names the budget.
C2_CreationTimesOut ==
    /\ pc = "create_sleep" => ~Gt(Elapsed, Secs(MAX_CREATE_TIMEOUT))
    /\ (CreationFailed /\ Includes(thrown[1].message, "Timeout reached"))
           => Includes(thrown[1].message, "300")

----------------------------------------------------------------------------
(* C3 *)

\* C3: the readiness waiter fails with the timeout error once a poll with a
\* status outside {ready, current} completes later than the budget after the
\* waiter's start, and the message includes the budget and the status of the
\* most recent poll: it never goes on to retry after such a poll.
C3_ReadinessTimesOut ==
    /\ pc = "ready_sleep" => ~Gt(Elapsed, Secs(MAX_WAIT_TIMEOUT))
    /\ (ReadinessFailed /\ Includes(thrown[1].message, "Timeout reached"))
           => /\ Includes(thrown[1].message, "900")
              /\ Includes(thrown[1].message, settled.resp.data.state)

----------------------------------------------------------------------------
(* C4 *)

\* C4: the record the creation waiter returns is the first element of the
\* polled list, in the provider's order, whose commit reference equals the
\* target and, when a non-empty context tag was given, whose context equals
\* it (the context is ignored when no tag was given); no element failing
\* this is ever returned, and a poll whose list holds such an element
\* returns it.
C4_Wanted(d) ==
    d.commit_ref = commitSha /\ (context = "" \/ d.context = context)
C4_ReturnsFirstMatch ==
    /\ CreationReturned => C4_Wanted(commitDeployment[1])
    /\ (pc = "ready_get" /\ settled.kind = "list")
           => LET items == settled.resp.data.items
              IN  \E k \in 1..Len(items) :
                      /\ items[k] = commitDeployment[1]
                      /\ \A j \in 1..(k - 1) : ~C4_Wanted(items[j])
    /\ pc = "create_sleep"
           => \A k \in 1..Len(settled.resp.data.items) :
                  ~C4_Wanted(settled.resp.data.items[k])

\* A poll whose list holds a record of the commit with another context
\* first, then the record of the wanted context, which is returned.
C4_Witness ==
    /\ pc = "ready_get" /\ settled.kind = "list"
    /\ context = "production"
    /\ Len(settled.resp.data.items) = 2
    /\ settled.resp.data.items[1].commit_ref = commitSha
    /\ settled.resp.data.items[1].context = "deploy-preview"
    /\ commitDeployment[1] = settled.resp.data.items[2]

----------------------------------------------------------------------------
(* C5 *)

\* C5: the readiness waiter returns only on a poll whose status is "ready"
\* or "current", and on the first such poll: when it has returned after k
\* status requests, k-1 delays of 10 seconds have passed and no error was
\* raised; while it is still polling, or when it failed, no poll has shown a
\* ready status.
C5_ReturnsOnFirstReadyPoll ==
    /\ ReadinessReturned
           => /\ latestDeployState \in {"ready", "current"}
              /\ nStatusGets >= 1
              /\ nSleeps(10000) = nStatusGets - 1
              /\ thrown = << >>
    /\ pc \in {"ready_get", "ready_await", "ready_sleep"}
           => /\ latestDeployState \notin {"ready", "current"}
              /\ nSleeps(10000) = nStatusGets - (IF pc = "ready_get" THEN 0 ELSE 1)
    /\ ReadinessFailed => latestDeployState \notin {"ready", "current"}

\* "building", then "ready" on the second poll, 10.5 s after the waiter
\* started (one delay of 10 s and two requests of 250 ms).
C5_Witness ==
    /\ pc = "url_loop" /\ i = 0
    /\ nStatusGets = 2
    /\ nSleeps(10000) = 1
    /\ latestDeployState = "ready"
    /\ now - startTime = 10500

----------------------------------------------------------------------------
(* C6 *)

\* The number of zero-based counters k with k < B/3, B in tenths of a second.
C6_Attempts(B) == IF B <= 0 THEN 0 ELSE (B + 29) \div 30

\* C6: with budget B and a URL that fails on every attempt, exactly as many
\* HEAD requests are issued as there are counters k >= 0 with k < B/3 (3 for
\* B = 9, 7 and 7.5, none for B <= 0, 20 for 60), and then the run reports
\* the "unable to connect" failure.
C6_AttemptsOfFailingUrl ==
    /\ commitDeployment # << >> => nHeads <= C6_Attempts(MAX_READY_TIMEOUT[1])
    /\ UrlUnavailable
           => /\ nHeads = C6_Attempts(MAX_READY_TIMEOUT[1])
              /\ nSleeps(3000) = nHeads
              /\ Includes(failed[Len(failed)], "Unable to connect to https://")
              /\ env.max_timeout = "9" => nHeads = 3
              /\ env.max_timeout = "7" => nHeads = 3
              /\ env.max_timeout = "7.5" => nHeads = 3
              /\ env.max_timeout = "-3" => nHeads = 0
              /\ env.max_timeout = "" => nHeads = 20

\* A budget of 7 s: three failed attempts, then the failure.
C6_Witness ==
    /\ UrlUnavailable
    /\ env.max_timeout = "7"
    /\ nHeads = 3

----------------------------------------------------------------------------
(* C7 *)

\* C7: when the first successful HEAD is attempt k, the URL waiter returns
\* right after it: k HEAD requests were issued, k-1 delays of 3 seconds came
\* before, nothing is requested afterwards and the waiter reports no
\* failure; a successful HEAD is never followed by a delay.
C7_ReturnsOnFirstSuccess ==
    /\ UrlReturned
           => /\ nHeads = i + 1
              /\ nSleeps(3000) = i
              /\ nHeads <= C6_Attempts(MAX_READY_TIMEOUT[1])
              /\ http[Len(http)].method = "HEAD"
              /\ inflight = 0
              /\ ~ENABLED Next
              /\ failed = MissingConfiguration
    /\ pc = "url_sleep" => (settled.kind = "head" /\ settled.resp.rejected)
    /\ pc \in {"url_loop", "url_await"} => nSleeps(3000) = i

\* Two failed attempts, then success on the third: 6 s of delays.
C7_Witness ==
    /\ UrlReturned
    /\ nHeads = 3
    /\ nSleeps(3000) = 2

----------------------------------------------------------------------------
(* C8 *)

\* C8: a failure in a phase aborts the phases after it: once the creation
\* waiter has failed no status request and no HEAD request is ever issued,
\* and once the readiness waiter has failed no HEAD request is ever issued.
C8_FailureAbortsLaterPhases ==
    /\ CreationFailed => (nStatusGets = 0 /\ nHeads = 0)
    /\ ReadinessFailed => nHeads = 0
    /\ thrown # << >> => (pc = "done" /\ inflight = 0 /\ ~ENABLED Next)

\* The readiness waiter fails on its second poll.
C8_Witness ==
    /\ ReadinessFailed
    /\ nStatusGets = 2
    /\ pc = "done"

----------------------------------------------------------------------------
(* C9 *)

\* C9: deploy_id and url are published exactly when the creation waiter
\* returns a record, in the same step: never before, never when it failed,
\* and before the first status request and the first HEAD request.
\* deploy_id is the record's id and url is https://{id}--{name}.netlify.app
\* of the same record, with nothing after it.
C9_OutputsPublishedAfterCreation ==
    /\ (outputs = << >>) <=> (commitDeployment = << >>)
    /\ CreationFailed => outputs = << >>
    /\ (nStatusGets > 0 \/ nHeads > 0) => outputs # << >>
    /\ commitDeployment # << >>
           => LET d == commitDeployment[1]
              IN  /\ outputs = << << "deploy_id", d.id >>,
                                  << "url", "https://" \o d.id \o "--" \o d.name
                                              \o ".netlify.app" >> >>
                  /\ d.id = "xyz" => outputs[2][2] = "https://xyz--mysite.netlify.app"

\* The creation waiter has just returned the record xyz of mysite.
C9_Witness ==
    /\ pc = "ready_get"
    /\ nStatusGets = 0
    /\ outputs = << << "deploy_id", "xyz" >>,
                    << "url", "https://xyz--mysite.netlify.app" >> >>

----------------------------------------------------------------------------
(* C10 *)

AllPhasesSucceeded ==
    /\ CreationReturned
    /\ latestDeployState \in {"ready", "current"}
    /\ UrlReturned

\* C10, as claimed: in a terminated run in which a required value was
\* missing or a phase failed, the failure channel is set and no output has
\* been published; a run ends without a failure only if all three phases
\* succeeded.
C10_FailurePreventsOutputs ==
    pc = "done"
        => /\ (ConfigurationMissing \/ thrown # << >> \/ UrlUnavailable)
                  => (failed # << >> /\ outputs = << >>)
           /\ failed = << >> => AllPhasesSucceeded

\* C10, amended: in a terminated run in which a required value was missing
\* or a phase failed, the failure channel is set; a run ends without a
\* failure only if all three phases succeeded; deploy_id and url have been
\* published exactly when phase 1 succeeded, also in a run that failed later.
C10_FailureIsReported ==
    pc = "done"
        => /\ (ConfigurationMissing \/ thrown # << >> \/ UrlUnavailable)
                  => failed # << >>
           /\ failed = << >> => AllPhasesSucceeded
           /\ (outputs # << >>) <=> CreationReturned

\* A run with a complete configuration whose readiness waiter failed: the
\* failure is reported and the outputs of phase 1 are there.
C10_Witness ==
    /\ pc = "done"
    /\ ~ConfigurationMissing
    /\ ReadinessFailed
    /\ failed # << >>
    /\ outputs # << >>

----------------------------------------------------------------------------
(* C11 *)

\* C11: every exception raised in a phase (a rejected request, the
\* fetch-failed error, a failure while reading a fetched record, a timeout
\* error) is caught at the top of run and turned into exactly one failure
\* message, the error's message when it is an object and the error itself
\* when it is a string; run then ends.
C11_Message(error) ==
    IF error.typeof = "string" THEN error.value ELSE error.message
C11_EveryErrorCaughtOnce ==
    /\ thrown # << >>
           => /\ pc = "done" /\ inflight = 0
              /\ failed = MissingConfiguration \o << C11_Message(thrown[1]) >>
    /\ (settled.kind \in {"list", "status"} /\ settled.resp.rejected)
           => thrown = << settled.resp.error >>
    /\ (settled.kind = "list" /\ ~settled.resp.rejected /\ settled.resp.data.tag = "null")
           => (thrown # << >> /\ thrown[1].message = "Failed to get deployments for site")
    /\ (settled.kind = "status" /\ ~settled.resp.rejected /\ settled.resp.data.tag = "null")
           => (thrown # << >> /\ Includes(thrown[1].message, "Cannot read properties of null"))

\* The status request resolved with no record: the TypeError of line 85 is
\* the one failure message of the run.
C11_Witness ==
    /\ pc = "done"
    /\ settled.kind = "status" /\ settled.resp.data.tag = "null"
    /\ failed = << "Cannot read properties of null (reading 'state')" >>

----------------------------------------------------------------------------
(* C13 *)

\* C13: a poll of the creation waiter that returns an absent list fails the
\* waiter at once with the fetch-failed error, whatever the elapsed time and
\* the number of earlier polls: no delay and no request follows it.
C13_AbsentListNotRetried ==
    (settled.kind = "list" /\ ~settled.resp.rejected /\ settled.resp.data.tag = "null")
        => /\ pc = "done"
           /\ thrown # << >>
           /\ thrown[1].message = "Failed to get deployments for site"
           /\ failed[Len(failed)] = "Failed to get deployments for site"
           /\ IsListGet(http[Len(http)])
           /\ Len(sleeps) = nListGets - 1
           /\ ~ENABLED Next

\* The absent list comes on the third poll, more than 300 s after the start.
C13_Witness ==
    /\ settled.kind = "list" /\ settled.resp.data.tag = "null"
    /\ nListGets = 3
    /\ now - startTime > 300000
    /\ pc = "done"

----------------------------------------------------------------------------
(* C14 *)

\* C14: in the creation waiter one delay of 5 seconds separates consecutive
\* polls and none precedes the first: after n polls n-1 delays have passed,
\* so a record first present on poll n is returned after exactly n-1 delays,
\* and a record present from the start is returned with no delay.
C14_OneDelayBetweenPolls ==
    /\ pc = "create_get" => (nSleeps(5000) = nListGets /\ Len(sleeps) = nListGets)
    /\ pc \in {"create_await", "create_sleep"}
           => (nSleeps(5000) = nListGets - 1 /\ Len(sleeps) = nListGets - 1)
    /\ (CreationReturned \/ CreationFailed) => nSleeps(5000) = nListGets - 1
    /\ (pc = "create_await" /\ nListGets = 1) => now = startTime
    /\ (pc = "ready_get" /\ settled.kind = "list")
           => now >= 5000 * (nListGets - 1)

\* The record is first present on the third poll: it is returned then, after
\* two delays, 10.75 s after the waiter started.
C14_Witness ==
    /\ pc = "ready_get" /\ settled.kind = "list"
    /\ nListGets = 3
    /\ sleeps = << 5000, 5000 >>
    /\ now = 10750
    /\ console[1] = "Deployment created (10.8s)"

----------------------------------------------------------------------------
(* C12 *)

\* C12: the run always terminates when every request completes.  What makes
\* it terminate, whatever the provider answers, is that each loop is
\* bounded: the creation waiter issues no poll later than its budget plus
\* one retry interval after it started (a failed match past the budget ends
\* it), the readiness waiter likewise, and the URL waiter makes no more
\* attempts than its budget allows.
C12_EveryLoopIsBounded ==
    /\ pc = "create_await"
           => ~Gt(Elapsed, Secs(MAX_CREATE_TIMEOUT + retrySecondsCreation))
    /\ pc = "ready_await"
           => ~Gt(Elapsed, Secs(MAX_WAIT_TIMEOUT + retrySecondsReadiness))
    /\ commitDeployment # << >> => nHeads <= C6_Attempts(MAX_READY_TIMEOUT[1])

----------------------------------------------------------------------------
(* C15 *)

\* The longest a request takes to settle.
C15_Latency == CHOOSE l \in Latency : \A m \in Latency : m <= l

\* C15: in the creation and readiness waiters the timeout is tested only
\* after a failed check: a poll that finds the record (a ready status)
\* returns it however late it is, a timeout error follows a poll that found
\* none, and no poll starts later than the budget plus one retry interval
\* plus one request latency after the waiter started.
C15_TimeoutAfterFailedCheckOnly ==
    /\ (settled.kind = "list" /\ ~settled.resp.rejected
          /\ settled.resp.data.tag = "array"
          /\ \E k \in 1..Len(settled.resp.data.items) : C4_Wanted(settled.resp.data.items[k]))
           => CreationReturned
    /\ (settled.kind = "status" /\ ~settled.resp.rejected
          /\ settled.resp.data.tag = "object"
          /\ settled.resp.data.state \in {"ready", "current"})
           => ReadinessReturned
    /\ pc = "create_await"
           => now - startTime
                <= (MAX_CREATE_TIMEOUT + retrySecondsCreation) * 1000 + C15_Latency
    /\ pc = "ready_await"
           => now - startTime
                <= (MAX_WAIT_TIMEOUT + retrySecondsReadiness) * 1000 + C15_Latency

----------------------------------------------------------------------------
(* C16 *)

\* The phase a request belongs to.
C16_Phase(r) == IF IsHead(r) THEN 3 ELSE IF IsListGet(r) THEN 1 ELSE 2

\* C16: there is one thread of control: at most one request is in flight,
\* and only while run is suspended on it, and the requests of a run are
\* ordered by phase: every list GET comes before every status GET, which
\* comes before every HEAD.
C16_OneRequestAtATime ==
    /\ inflight \in {0, 1}
    /\ (inflight = 1) <=> (pc \in {"create_await", "ready_await", "url_await"})
    /\ \A a, b \in 1..Len(http) : a < b => C16_Phase(http[a]) <= C16_Phase(http[b])
    /\ pc = "create_await" => C16_Phase(http[Len(http)]) = 1
    /\ pc = "ready_await" => C16_Phase(http[Len(http)]) = 2
    /\ pc = "url_await" => C16_Phase(http[Len(http)]) = 3

\* Two requests of each phase have been issued, the last is in flight.
C16_Witness ==
    /\ nListGets = 2 /\ nStatusGets = 2 /\ nHeads = 2
    /\ inflight = 1

----------------------------------------------------------------------------
(* C17 *)

\* C17: each waiter runs with its own budget: the creation waiter with 300
\* seconds, the readiness waiter with 900 seconds measured from its own
\* start, the URL waiter with the override, or 60 seconds when there is
\* none, whatever time the earlier phases took: an always failing URL gets
\* 20 attempts by default.
C17_OwnBudgetPerPhase ==
    /\ pc \in {"create_get", "create_await", "create_sleep"}
           => (timeoutSeconds = << 3000 >> /\ startTime = 0)
    /\ pc \in {"ready_get", "ready_await", "ready_sleep"}
           => timeoutSeconds = << 9000 >>
    /\ (pc = "ready_get" /\ nStatusGets = 0) => startTime = now
    /\ pc \in {"url_loop", "url_await", "url_sleep"}
           => timeoutSeconds =
                  CASE env.max_timeout = ""    -> << 600 >>
                    [] env.max_timeout = "9"   -> << 90 >>
                    [] env.max_timeout = "7"   -> << 70 >>
                    [] env.max_timeout = "7.5" -> << 75 >>
                    [] env.max_timeout = "-3"  -> << -30 >>
    /\ (UrlUnavailable /\ env.max_timeout = "") => nHeads = 20

\* No override, and the first two phases took more than 600 s: the failing
\* URL still gets its 20 attempts.
C17_Witness ==
    /\ UrlUnavailable
    /\ env.max_timeout = ""
    /\ nHeads = 20
    /\ now - 20 * (3000 + 250) > 600000

----------------------------------------------------------------------------
(* C18 *)

\* The run ended in phase 3 without a successful HEAD.
C18_Exhausted ==
    /\ pc = "done"
    /\ latestDeployState \in {"ready", "current"}
    /\ ~(settled.kind = "head" /\ ~settled.resp.rejected)

\* C18: when the URL waiter has used up its attempts it does not throw: the
\* catch of run has not run, the "unable to connect" failure is on the
\* failure channel once, and a delay of 3 seconds followed each failed
\* attempt, the last one too.
C18_ExhaustionReportedNotThrown ==
    C18_Exhausted
        => /\ thrown = << >>
           /\ failed = MissingConfiguration
                         \o << "Timeout reached: Unable to connect to " \o outputs[2][2] >>
           /\ nSleeps(3000) = nHeads
           /\ i = nHeads
           /\ (nHeads > 0 => sleeps[Len(sleeps)] = 3000)

\* Three failed attempts, three delays, one failure message, nothing thrown.
C18_Witness ==
    /\ C18_Exhausted
    /\ nHeads = 3
    /\ nSleeps(3000) = 3
    /\ Len(failed) = 1
    /\ thrown = << >>

----------------------------------------------------------------------------
(* C19 *)

\* C19: a rejected request of the creation or readiness waiter is not
\* retried: it ends the run on that poll, with no delay and no request
\* after it, and its message is the run's failure message.  A rejected HEAD
\* never ends the run by itself: it is retried while attempts remain, and
\* the run ends after it only when they are used up.
C19_RejectionPerPhase ==
    /\ (settled.kind \in {"list", "status"} /\ settled.resp.rejected)
           => /\ pc = "done"
              /\ thrown = << settled.resp.error >>
              /\ failed[Len(failed)] = settled.resp.error.message
              /\ C16_Phase(http[Len(http)]) = (IF settled.kind = "list" THEN 1 ELSE 2)
              /\ Len(sleeps) = (IF settled.kind = "list" THEN nListGets - 1
                                ELSE nListGets - 1 + nStatusGets - 1)
    /\ (settled.kind = "head" /\ settled.resp.rejected)
           => /\ thrown = << >>
              /\ pc \in {"url_sleep", "url_loop", "url_await", "done"}
              /\ pc = "done" => nHeads = C6_Attempts(MAX_READY_TIMEOUT[1])
              /\ (pc = "url_loop" /\ nHeads < C6_Attempts(MAX_READY_TIMEOUT[1]))
                     => ENABLED UrlHead

\* A HEAD was rejected and the next one has been sent.
C19_Witness ==
    /\ settled.kind = "head" /\ settled.resp.rejected
    /\ pc = "url_await"
    /\ nHeads = 2

----------------------------------------------------------------------------
(* C20 *)

\* C20: every successful status fetch overwrites the latest known state
\* before the checks of that poll: the retry log line, and a timeout error,
\* report the status of the most recent poll, and the placeholder
\* "(unknown)" is never what a timeout error reports.
C20_LatestStateIsLastPoll ==
    /\ pc = "ready_sleep"
           => /\ settled.kind = "status"
              /\ latestDeployState = settled.resp.data.state
              /\ console = << "Deploy not yet ready (state = " \o settled.resp.data.state
                                \o "). Trying again in 10 seconds..." >>
    /\ (settled.kind = "status" /\ ~settled.resp.rejected
          /\ settled.resp.data.tag = "object")
           => latestDeployState = settled.resp.data.state
    /\ (ReadinessFailed /\ Includes(thrown[1].message, "Timeout reached"))
           => /\ ~Includes(thrown[1].message, "(unknown)")
              /\ Includes(thrown[1].message, "state: " \o settled.resp.data.state \o ".")

\* The second poll returned "error": that is the state of the retry line.
C20_Witness ==
    /\ pc = "ready_sleep"
    /\ nStatusGets = 2
    /\ latestDeployState = "error"
    /\ Includes(console[1], "(state = error)")

====
